---- MODULE Spec2Model ----
(***************************************************************************)
(* The playtest simulation of GameSimulation.tsx as a state machine.       *)
(*                                                                         *)
(* One action per event the component reacts to: a click on "Roll Dice"    *)
(* (handleRoll up to its await), the expiry of the 600 ms animation timer  *)
(* (the rest of handleRoll), the expiry of a 500 ms card timer (drawCard), *)
(* "Play Again" (resetGame), the sound toggle and the close button.        *)
(* Each handler runs to completion: the functional setGameState updaters   *)
(* it queues are applied in the order the handler issues them.             *)
(*                                                                         *)
(* An optional value (T | null, T | undefined) is a sequence of length 0   *)
(* or 1.  A text that the code inspects (a tile effect) is a sequence of   *)
(* one-character strings.                                                  *)
(***************************************************************************)
EXTENDS Integers, Sequences, FiniteSets, Bags, TLC

VARIABLES design, gameState, isRolling, soundEnabled, timers, mounted, sfx, last,
          app, viz, calls

vars == <<design, gameState, isRolling, soundEnabled, timers, mounted, sfx, last,
          app, viz, calls>>

\* the state of GameSimulation, and the state of App and BoardVisualizer
simVars == <<design, gameState, isRolling, soundEnabled, timers, mounted, sfx>>

shellVars == <<app, viz, calls>>

-----------------------------------------------------------------------------
(* Bounds of the model *)

\* a roll is explored only while the turn counter is at most MaxRolls
\* (MaxRollsWide for the designs whose card draws branch widely) and the log
\* holds fewer than MaxLog entries
MaxRolls == 4

MaxRollsWide == 1

MaxLog == 8

\* the sound toggle and the close button are explored only while the turn
\* counter is at most MaxUiTurn
MaxUiTurn == 2

\* Math.random() ranges over k / RandomResolution, k in 0 .. RandomResolution-1
RandomResolution == 6

\* failing audio is explored for the first MaxAudioTurn rolls, for the card
\* draws they schedule, and on every game-ending roll
MaxAudioTurn == 1

\* handleGenerate is called at most MaxSubmits times, and at most MaxCalls
\* operations of the board tools (edit, Pro generation, video) are in flight
\* at once
MaxSubmits == 2

MaxCalls == 1

-----------------------------------------------------------------------------
(* Program constants *)

TOTAL_SPACES == 24

DIE_FACES == 6

ROLL_DELAY == 600

CARD_DELAY == 500

Null == <<>>

Some(v) == <<v>>

-----------------------------------------------------------------------------
(* Texts *)

UpperCase == <<"A", "B", "C", "D", "E", "F", "G", "H", "I", "J", "K", "L", "M",
               "N", "O", "P", "Q", "R", "S", "T", "U", "V", "W", "X", "Y", "Z">>

LowerCase == <<"a", "b", "c", "d", "e", "f", "g", "h", "i", "j", "k", "l", "m",
               "n", "o", "p", "q", "r", "s", "t", "u", "v", "w", "x", "y", "z">>

LowerChar(c) ==
    IF \E i \in 1..Len(UpperCase) : UpperCase[i] = c
    THEN LowerCase[CHOOSE i \in 1..Len(UpperCase) : UpperCase[i] = c]
    ELSE c

toLowerCase_Unchanged(text) == text

\* String.prototype.toLowerCase
toLowerCase(text) == [i \in 1..Len(text) |-> LowerChar(text[i])]

\* String.prototype.includes
includes(text, needle) ==
    \E i \in 0..(Len(text) - Len(needle)) :
        \A j \in 1..Len(needle) : text[i + j] = needle[j]

CardWord == <<"c", "a", "r", "d">>

-----------------------------------------------------------------------------
(* Designs handed to the simulation (GameDesign of types.ts) *)

TileRecycle == [name |-> "Recycle", effect |-> <<"a", " ", "C", "a", "r", "d">>]

TileLitter == [name |-> "Litter", effect |-> <<"L", "o", "s", "e">>]

TileRace == [name |-> "Race", effect |-> <<"C", "a", "r", " ", "d">>]

CardQuiz == [type |-> "Quiz", examples |-> <<"q1", "q2">>]

CardFact == [type |-> "Fact", examples |-> <<"f1">>]

DesignLean ==
    [tileTypes |-> <<TileRecycle, TileLitter>>,
     cardTypes |-> <<CardFact>>,
     winningCondition |-> "Tidy the beach"]

DesignFull ==
    [tileTypes |-> <<TileRecycle, TileLitter, TileRace>>,
     cardTypes |-> <<CardQuiz, CardFact>>,
     winningCondition |-> "First to the finish wins"]

DesignNoCards ==
    [tileTypes |-> <<TileLitter, TileRecycle>>,
     cardTypes |-> <<>>,
     winningCondition |-> "Clean the park"]

DesignNoTiles ==
    [tileTypes |-> <<>>,
     cardTypes |-> <<CardFact>>,
     winningCondition |-> "Reach the end"]

\* a card type whose example list is empty: examples is a plain string[]
CardBlank == [type |-> "Blank", examples |-> <<>>]

DesignBlankCard ==
    [tileTypes |-> <<TileRecycle, TileLitter>>,
     cardTypes |-> <<CardBlank>>,
     winningCondition |-> "Reach the end"]

Designs == {DesignLean, DesignFull, DesignNoCards, DesignNoTiles}

WideDesigns == {DesignFull, DesignNoCards}

-----------------------------------------------------------------------------
(* Math.random *)

RandomUnits == 0..(RandomResolution - 1)

\* Math.floor(Math.random() * n) for the random value u / RandomResolution
FloorRandomTimes(u, n) == (u * n) \div RandomResolution

DieRoll_FromZero(u) == FloorRandomTimes(u, DIE_FACES)

\* Math.floor(Math.random() * 6) + 1
DieRoll(u) == FloorRandomTimes(u, DIE_FACES) + 1

\* Math.random() < 0.3
RandomChance(u) == 10 * u < 3 * RandomResolution

\* one random value for each value a draw can take: the smallest of those
\* that give the same die face, the same chance, the same index below n
DieUnits ==
    {u \in RandomUnits : \A v \in RandomUnits : DieRoll(v) = DieRoll(u) => u <= v}

ChanceUnits ==
    {u \in RandomUnits : \A v \in RandomUnits : RandomChance(v) = RandomChance(u) => u <= v}

IndexUnits(n) ==
    {u \in RandomUnits :
        \A v \in RandomUnits : FloorRandomTimes(v, n) = FloorRandomTimes(u, n) => u <= v}

-----------------------------------------------------------------------------
(* The board *)

TileAt_DefaultTile(d, i) ==
    IF Len(d.tileTypes) = 0 THEN Some(DesignLean.tileTypes[1])
    ELSE Some(d.tileTypes[(i % Len(d.tileTypes)) + 1])

TileAt_NextTile(d, i) ==
    IF Len(d.tileTypes) = 0 THEN Null
    ELSE Some(d.tileTypes[((i + 1) % Len(d.tileTypes)) + 1])

\* design.tileTypes[i % design.tileTypes.length]; undefined for an empty list
TileAt(d, i) ==
    IF Len(d.tileTypes) = 0 THEN Null
    ELSE Some(d.tileTypes[(i % Len(d.tileTypes)) + 1])

\* const rows = 4; const cols = 6;
ROWS == 4

COLS == 6

\* Math.floor(i / cols)
Row(i) == i \div COLS

\* i % cols
Col(i) == i % COLS

ActualCol_NoZigZag(i) == Col(i)

\* row % 2 === 0 ? col : cols - 1 - col
ActualCol(i) == IF Row(i) % 2 = 0 THEN Col(i) ELSE COLS - 1 - Col(i)

\* a number that is a quotient, kept exact as numerator over denominator
Ratio(num, den) == [num |-> num, den |-> den]

\* (actualCol / (cols - 1)) * 80 + 10
SpaceX(i) == Ratio(ActualCol(i) * 80 + 10 * (COLS - 1), COLS - 1)

SpaceY_Flat(i) == Ratio(90 * (ROWS - 1), ROWS - 1)

\* 90 - (row / (rows - 1)) * 80
SpaceY(i) == Ratio(90 * (ROWS - 1) - Row(i) * 80, ROWS - 1)

SpaceType_FinishPastEnd(i) ==
    IF i = 0 THEN "START" ELSE IF i = TOTAL_SPACES THEN "FINISH" ELSE "NORMAL"

\* i === 0 ? 'START' : i === TOTAL_SPACES - 1 ? 'FINISH' : 'NORMAL'
SpaceType(i) ==
    IF i = 0 THEN "START" ELSE IF i = TOTAL_SPACES - 1 THEN "FINISH" ELSE "NORMAL"

spaces_XFromTile(d) ==
    [i \in 0..(TOTAL_SPACES - 1) |->
        [x |-> IF i > 0 /\ i < TOTAL_SPACES - 1 /\ TileAt(d, i) = TileAt(DesignFull, 1)
               THEN SpaceX(0) ELSE SpaceX(i),
         y |-> SpaceY(i),
         type |-> SpaceType(i),
         tileDetails |-> IF i = 0 \/ i = TOTAL_SPACES - 1 THEN Null ELSE TileAt(d, i)]]

\* the path built by the loop of lines 119-135
spaces(d) ==
    [i \in 0..(TOTAL_SPACES - 1) |->
        [x |-> SpaceX(i),
         y |-> SpaceY(i),
         type |-> SpaceType(i),
         tileDetails |-> IF i = 0 \/ i = TOTAL_SPACES - 1 THEN Null ELSE TileAt(d, i)]]

------------------------------------------------------------------------------
(* Log messages *)

WelcomeMsg == [kind |-> "welcome"]

ResetMsg == [kind |-> "reset"]

FinishMsg(roll) == [kind |-> "finish", roll |-> roll]

WinMsg(d) == [kind |-> "win", text |-> d.winningCondition]

MoveMsg(roll, newPosition) == [kind |-> "move", roll |-> roll, space |-> newPosition + 1]

TileMsg(tile) == [kind |-> "tile", name |-> tile.name, effect |-> tile.effect]

\* a template literal prints an undefined value as the text "undefined"
TemplateText(opt) == IF opt = Null THEN "undefined" ELSE opt[1]

CardMsg(type, example) == [kind |-> "card", type |-> type, content |-> TemplateText(example)]

-----------------------------------------------------------------------------
(* GameState and its updaters *)

InitialGameState ==
    [playerPosition |-> 0,
     log |-> <<WelcomeMsg>>,
     turn |-> 1,
     isGameOver |-> FALSE,
     currentEffect |-> Null,
     drawnCard |-> Null]

ResetGameState_KeepsLog ==
    [playerPosition |-> 0,
     log |-> <<ResetMsg>> \o gameState.log,
     turn |-> 1,
     isGameOver |-> FALSE,
     currentEffect |-> Null,
     drawnCard |-> Null]

ResetGameState ==
    [playerPosition |-> 0,
     log |-> <<ResetMsg>>,
     turn |-> 1,
     isGameOver |-> FALSE,
     currentEffect |-> Null,
     drawnCard |-> Null]

addToLog_Appends(prev, message) == [prev EXCEPT !.log = Append(prev.log, message)]

\* setGameState(prev => ({ ...prev, log: [message, ...prev.log] }))
addToLog(prev, message) == [prev EXCEPT !.log = <<message>> \o prev.log]

ClearEffectAndCard_KeepsCard(prev) == [prev EXCEPT !.currentEffect = Null]

\* setGameState(prev => ({ ...prev, currentEffect: null, drawnCard: null }))
ClearEffectAndCard(prev) == [prev EXCEPT !.currentEffect = Null, !.drawnCard = Null]

SetGameOver(prev) == [prev EXCEPT !.isGameOver = TRUE]

SetPositionAndTurn_KeepsTurn(prev, newPosition) ==
    [prev EXCEPT !.playerPosition = newPosition]

SetPositionAndTurn(prev, newPosition) ==
    [prev EXCEPT !.playerPosition = newPosition, !.turn = prev.turn + 1]

SetCurrentEffect(prev, tile) == [prev EXCEPT !.currentEffect = Some(tile.effect)]

SetDrawnCard(prev, type, example) ==
    [prev EXCEPT !.drawnCard = Some([type |-> type, content |-> example])]

\* a state update of a component that is no longer mounted is dropped
Commit_NeverApplies(isMounted, new, old) == old

Commit(isMounted, new, old) == IF isMounted THEN new ELSE old

-----------------------------------------------------------------------------
(* Audio *)

\* what one call of playSfx meets: audio works, the window has no AudioContext
\* (line 26), or something inside the try block throws (caught at lines 97-99)
AudioOutcomes == {"ok", "none", "throws"}

AudioChoices(enabled, mayFail) ==
    IF enabled /\ mayFail THEN AudioOutcomes ELSE {"ok"}

\* a second call in the same handler run: a window without AudioContext still
\* has none, a window with one may throw or not
AudioChoicesAfter(first, enabled, mayFail) ==
    IF first = "none" THEN {"none"} ELSE AudioChoices(enabled, mayFail) \ {"none"}

playSfx_IgnoresAvailability(played, enabled, audio, type) ==
    IF enabled THEN Append(played, type) ELSE played

\* if (soundEnabled) playSfx(type): the cue is appended to the cues played
\* unless the call returned early or ended in the catch block
playSfx(played, enabled, audio, type) ==
    IF enabled /\ audio = "ok" THEN Append(played, type) ELSE played

\* the outcomes met by the calls of playSfx a handler made, in order
Requested(enabled, outcomes) == IF enabled THEN outcomes ELSE <<>>

-----------------------------------------------------------------------------
(* Timers *)

RollTimer_SilentFromStart(position, sound) ==
    [kind |-> "roll", delay |-> ROLL_DELAY,
     position |-> IF sound THEN position ELSE 0, sound |-> sound]

RollTimer(position, sound) ==
    [kind |-> "roll", delay |-> ROLL_DELAY, position |-> position, sound |-> sound]

CardTimer(sound) ==
    [kind |-> "card", delay |-> CARD_DELAY, position |-> 0, sound |-> sound]

CanFire_AnyOrder(ts, i) == TRUE

\* a timer expires only after every timer that was started before it with an
\* equal or shorter delay
CanFire(ts, i) == \A j \in 1..(i - 1) : ts[j].delay > ts[i].delay

RemoveAt(ts, i) == SubSeq(ts, 1, i - 1) \o SubSeq(ts, i + 1, Len(ts))

-----------------------------------------------------------------------------
(* The record of the last event, kept for stating properties *)

Event(op, roll, chance, from, scheduled) ==
    [op |-> op, roll |-> roll, chance |-> chance, from |-> from, scheduled |-> scheduled,
     audio |-> <<>>]

Heard(event, outcomes) == [event EXCEPT !.audio = outcomes]

-----------------------------------------------------------------------------
(* App and BoardVisualizer: the state after construction *)

\* part_000 lines 8-11; submitted counts the calls of handleGenerate, and the
\* n-th call asks for design n
AppInitial ==
    [gameDesign |-> Null, loading |-> FALSE, boardImageUrl |-> Null,
     loadingImage |-> FALSE, submitted |-> 0]

\* part_002 lines 15-20
VizInitial ==
    [editPrompt |-> "", isEditing |-> FALSE, isProLoading |-> FALSE,
     isVideoLoading |-> FALSE, videoUrl |-> Null]

ShellIdle ==
    /\ app = AppInitial
    /\ viz = VizInitial
    /\ calls = EmptyBag

-----------------------------------------------------------------------------
Init ==
    /\ ShellIdle
    /\ design \in Designs
    /\ gameState = InitialGameState
    /\ isRolling = FALSE
    /\ soundEnabled = TRUE
    /\ timers = <<>>
    /\ mounted = TRUE
    /\ sfx = <<>>
    /\ last = Event("open", 0, FALSE, 0, FALSE)

-----------------------------------------------------------------------------
(* handleRoll, up to the await *)

RollRejected_IgnoresGameOver(gs, rolling) == rolling

RollRejected_IgnoresRolling(gs, rolling) == gs.isGameOver

\* line 161
RollRejected(gs, rolling) == gs.isGameOver \/ rolling

\* the rolls of an unfinished game that the model explores
AudioMayFail(gs, finishing) == finishing \/ gs.turn <= MaxAudioTurn

\* a draw runs after the roll that scheduled it has advanced the turn
CardAudioMayFail(gs) == gs.turn <= MaxAudioTurn + 1

WithinBounds(gs, d) ==
    \/ gs.isGameOver
    \/ /\ gs.turn <= (IF d \in WideDesigns THEN MaxRollsWide ELSE MaxRolls)
       /\ Len(gs.log) < MaxLog

HandleRoll ==
    /\ UNCHANGED shellVars
    /\ mounted
    /\ IF RollRejected(gameState, isRolling)
       THEN /\ sfx' = <<>>
            /\ last' = Event("rollRejected", 0, FALSE, 0, FALSE)
            /\ UNCHANGED <<design, gameState, isRolling, soundEnabled, timers, mounted>>
       ELSE /\ WithinBounds(gameState, design)
            /\ isRolling' = TRUE
            /\ \E a \in AudioChoices(soundEnabled, AudioMayFail(gameState, FALSE)) :
                  /\ sfx' = playSfx(<<>>, soundEnabled, a, "roll")
                  /\ last' = Heard(Event("roll", 0, FALSE, 0, FALSE),
                                   Requested(soundEnabled, <<a>>))
            /\ gameState' = ClearEffectAndCard(gameState)
            /\ timers' = Append(timers, RollTimer(gameState.playerPosition, soundEnabled))
            /\ UNCHANGED <<design, soundEnabled, mounted>>

-----------------------------------------------------------------------------
(* handleRoll, after the await *)

NewPosition_NoClamp(position, roll) == position + roll

\* lines 172-175
NewPosition(position, roll) ==
    IF position + roll >= TOTAL_SPACES - 1 THEN TOTAL_SPACES - 1 ELSE position + roll

IsFinish_Exact(position, roll) == position + roll = TOTAL_SPACES - 1

\* line 174
IsFinish(position, roll) == position + roll >= TOTAL_SPACES - 1

MoveBranch_WinFirst(prev, d, position, roll) ==
    IF IsFinish(position, roll)
    THEN addToLog(addToLog(SetGameOver(prev), WinMsg(d)), FinishMsg(roll))
    ELSE addToLog(prev, MoveMsg(roll, NewPosition(position, roll)))

\* lines 174-183: the game-ending branch and the ordinary-move branch
MoveBranch(prev, d, position, roll) ==
    IF IsFinish(position, roll)
    THEN addToLog(addToLog(SetGameOver(prev), FinishMsg(roll)), WinMsg(d))
    ELSE addToLog(prev, MoveMsg(roll, NewPosition(position, roll)))

MoveCue_WinThenMove(played, enabled, audio, position, roll) ==
    IF IsFinish(position, roll)
    THEN playSfx(playSfx(played, enabled, audio, "win"), enabled, audio, "move")
    ELSE playSfx(played, enabled, audio, "move")

\* lines 177 and 181: one cue per resolution, chosen by the branch taken
MoveCue(played, enabled, audio, position, roll) ==
    IF IsFinish(position, roll)
    THEN playSfx(played, enabled, audio, "win")
    ELSE playSfx(played, enabled, audio, "move")

LandedTile_NoBoundaryGuard(d, newPosition) ==
    IF newPosition <= TOTAL_SPACES - 1 THEN TileAt(d, newPosition) ELSE Null

\* lines 193-194: the tile whose effect is triggered, if any
LandedTile(d, newPosition) ==
    IF newPosition < TOTAL_SPACES - 1 /\ newPosition > 0
    THEN spaces(d)[newPosition].tileDetails
    ELSE Null

\* lines 195-198
TileBranch(prev, tileOpt) ==
    IF tileOpt = Null THEN prev
    ELSE addToLog(SetCurrentEffect(prev, tileOpt[1]), TileMsg(tileOpt[1]))

TileCue(played, enabled, audio, tileOpt) ==
    IF tileOpt = Null THEN played ELSE playSfx(played, enabled, audio, "tile")

\* line 201, evaluated only when the space has a tile
WantsCard(tile, u) ==
    RandomChance(u) \/ includes(toLowerCase(tile.effect), CardWord)

ResolvedState_TileFirst(prev, d, position, roll) ==
    LET newPosition == NewPosition(position, roll)
    IN  SetPositionAndTurn(MoveBranch(TileBranch(prev, LandedTile(d, newPosition)),
                                      d, position, roll),
                           newPosition)

\* lines 174-198 in the order of the updates they queue
ResolvedState(prev, d, position, roll) ==
    LET newPosition == NewPosition(position, roll)
    IN  TileBranch(SetPositionAndTurn(MoveBranch(prev, d, position, roll), newPosition),
                   LandedTile(d, newPosition))

RollResolve ==
    \E i \in 1..Len(timers), u1 \in DieUnits :
        /\ timers[i].kind = "roll"
        /\ CanFire(timers, i)
        /\ LET c == timers[i]
               roll == DieRoll(u1)
               tileOpt == LandedTile(design, NewPosition(c.position, roll))
               mayFail == AudioMayFail(gameState, IsFinish(c.position, roll))
           IN  /\ gameState' = Commit(mounted, ResolvedState(gameState, design, c.position, roll), gameState)
               /\ isRolling' = Commit(mounted, FALSE, isRolling)
               /\ IF tileOpt = Null
                  THEN \E a1 \in AudioChoices(c.sound, mayFail) :
                       /\ sfx' = MoveCue(<<>>, c.sound, a1, c.position, roll)
                       /\ timers' = RemoveAt(timers, i)
                       /\ last' = Heard(Event("resolve", roll, FALSE, c.position, FALSE),
                                        Requested(c.sound, <<a1>>))
                  ELSE \E u2 \in ChanceUnits, a1 \in AudioChoices(c.sound, mayFail) :
                       \E a2 \in AudioChoicesAfter(a1, c.sound, mayFail) :
                       /\ sfx' = TileCue(MoveCue(<<>>, c.sound, a1, c.position, roll),
                                         c.sound, a2, tileOpt)
                       /\ timers' = IF WantsCard(tileOpt[1], u2)
                                    THEN Append(RemoveAt(timers, i), CardTimer(c.sound))
                                    ELSE RemoveAt(timers, i)
                       /\ last' = Heard(Event("resolve", roll, RandomChance(u2), c.position,
                                              WantsCard(tileOpt[1], u2)),
                                        Requested(c.sound, <<a1, a2>>))
        /\ UNCHANGED <<design, soundEnabled, mounted>>
        /\ UNCHANGED shellVars

-----------------------------------------------------------------------------
(* drawCard *)

ExampleAt_First(cardType, u) ==
    IF Len(cardType.examples) = 0 THEN Null ELSE Some(cardType.examples[1])

\* randomCardType.examples[Math.floor(Math.random() * examples.length)]
ExampleAt(cardType, u) ==
    IF Len(cardType.examples) = 0 THEN Null
    ELSE Some(cardType.examples[FloorRandomTimes(u, Len(cardType.examples)) + 1])

CardTypeAt(d, u) == d.cardTypes[FloorRandomTimes(u, Len(d.cardTypes)) + 1]

\* the random values that pick distinct examples of the card type picked by u1
ExampleUnits(d, u1) ==
    IF Len(d.cardTypes) = 0 THEN {0}
    ELSE IndexUnits(Len(CardTypeAt(d, u1).examples))

NoCardTypes_ChecksTiles(d) == Len(d.tileTypes) = 0

\* line 147
NoCardTypes(d) == Len(d.cardTypes) = 0

\* lines 150-157; with no card type, reading .examples of the undefined
\* element throws before any update is queued
DrawnState(prev, d, u1, u2) ==
    IF Len(d.cardTypes) = 0 THEN prev
    ELSE LET randomCardType == CardTypeAt(d, u1)
             randomExample == ExampleAt(randomCardType, u2)
         IN  addToLog(SetDrawnCard(prev, randomCardType.type, randomExample),
                      CardMsg(randomCardType.type, randomExample))

DrawCard ==
    \E i \in 1..Len(timers) :
        /\ timers[i].kind = "card"
        /\ CanFire(timers, i)
        /\ timers' = RemoveAt(timers, i)
        /\ IF NoCardTypes(design)
           THEN /\ sfx' = <<>>
                /\ UNCHANGED gameState
                /\ last' = Event("card", 0, FALSE, 0, FALSE)
           ELSE \E u1 \in IndexUnits(Len(design.cardTypes)) :
                \E u2 \in ExampleUnits(design, u1),
                   a \in AudioChoices(timers[i].sound, CardAudioMayFail(gameState)) :
                /\ sfx' = playSfx(<<>>, timers[i].sound, a, "card")
                /\ gameState' = Commit(mounted, DrawnState(gameState, design, u1, u2), gameState)
                /\ last' = Heard(Event("card", 0, FALSE, 0, FALSE),
                                 Requested(timers[i].sound, <<a>>))
        /\ UNCHANGED <<design, isRolling, soundEnabled, mounted>>
        /\ UNCHANGED shellVars

-----------------------------------------------------------------------------
(* resetGame: "Play Again" is rendered only when the game is over *)

ResetOffered_AfterFirstRoll(gs) == gs.isGameOver \/ gs.turn > 1

ResetOffered_Always(gs) == TRUE

\* {gameState.isGameOver && ( ... <button onClick={resetGame}> ... )}
ResetOffered(gs) == gs.isGameOver

ResetGame_Closes ==
    /\ UNCHANGED shellVars
    /\ mounted
    /\ ResetOffered(gameState)
    /\ gameState' = ResetGameState
    /\ mounted' = FALSE
    /\ sfx' = <<>>
    /\ last' = Event("reset", 0, FALSE, 0, FALSE)
    /\ UNCHANGED <<design, isRolling, soundEnabled, timers>>

ResetGame ==
    /\ UNCHANGED shellVars
    /\ mounted
    /\ ResetOffered(gameState)
    /\ gameState' = ResetGameState
    /\ sfx' = <<>>
    /\ last' = Event("reset", 0, FALSE, 0, FALSE)
    /\ UNCHANGED <<design, isRolling, soundEnabled, timers, mounted>>

(* the sound toggle *)
ToggleSound ==
    /\ UNCHANGED shellVars
    /\ mounted
    /\ gameState.turn <= MaxUiTurn
    /\ soundEnabled' = ~soundEnabled
    /\ sfx' = <<>>
    /\ last' = Event("sound", 0, FALSE, 0, FALSE)
    /\ UNCHANGED <<design, gameState, isRolling, timers, mounted>>

(* the close button: onClose unmounts the simulation *)
Close_DiscardsState ==
    /\ UNCHANGED shellVars
    /\ mounted
    /\ gameState.turn <= MaxUiTurn
    /\ mounted' = FALSE
    /\ gameState' = InitialGameState
    /\ sfx' = <<>>
    /\ last' = Event("close", 0, FALSE, 0, FALSE)
    /\ UNCHANGED <<design, isRolling, soundEnabled, timers>>

Close ==
    /\ UNCHANGED shellVars
    /\ mounted
    /\ gameState.turn <= MaxUiTurn
    /\ mounted' = FALSE
    /\ sfx' = <<>>
    /\ last' = Event("close", 0, FALSE, 0, FALSE)
    /\ UNCHANGED <<design, gameState, isRolling, soundEnabled, timers>>

-----------------------------------------------------------------------------
Next ==
    \/ HandleRoll
    \/ RollResolve
    \/ DrawCard
    \/ ResetGame
    \/ ToggleSound
    \/ Close

Spec == Init /\ [][Next]_vars

\* the designs whose spaces carry tiles: the only ones on which a card draw is
\* ever scheduled
CardInit == Init /\ Len(design.tileTypes) > 0

\* timers expire: a pending card draw runs. (A pending roll resolves too, but
\* no roll resolves while a card draw scheduled before it is pending, so the
\* draw needs no fairness of RollResolve.)
CardLiveSpec ==
    CardInit /\ [][Next]_vars /\ WF_vars(DrawCard)

\* a click on Roll Dice that is accepted
AcceptRoll == HandleRoll /\ last'.op = "roll"

\* timers expire: a pending roll resolves and a pending card draw runs
TimerLiveSpec ==
    Init /\ [][Next]_vars /\ WF_vars(RollResolve) /\ WF_vars(DrawCard)

\* the simulation opened on the design whose card type has no example
BlankInit ==
    /\ ShellIdle
    /\ design = DesignBlankCard
    /\ gameState = InitialGameState
    /\ isRolling = FALSE
    /\ soundEnabled = TRUE
    /\ timers = <<>>
    /\ mounted = TRUE
    /\ sfx = <<>>
    /\ last = Event("open", 0, FALSE, 0, FALSE)

BlankSpec == BlankInit /\ [][Next]_vars

-----------------------------------------------------------------------------
(* App (part_000): the application shell *)

\* the design the n-th call of generateGameConcept returns
Concept(n, boardDesign) == [id |-> n, boardDesign |-> boardDesign]

\* an image made for design n by one of the image services
Image(n, by) == [for |-> n, by |-> by]

\* a promise in flight (calls is the bag of them): the service called, the design on display when the
\* handler was started, and the image handed to the service, if any
Call(kind, n, image) == [kind |-> kind, design |-> n, image |-> image]

\* a call is started; a call settles
Start(cs, c) == cs (+) SetToBag({c})

Settle(cs, c) == cs (-) SetToBag({c})

\* the calls of one service in flight
InFlight(cs, kind) ==
    BagCardinality([c \in {x \in BagToSet(cs) : x.kind = kind} |-> cs[c]])

ShellEvent(op, result, n) == [op |-> op, result |-> result, design |-> n]

\* generateGameConcept resolves to a design, with or without a board
\* description, or rejects (geminiService.ts lines 100-109)
ConceptOutcomes == {"board", "noBoard", "throws"}

\* generateBoardImage resolves to an image or, on any error, to null
ImageOutcomes == {"url", "null"}

\* editBoardImage, generateProBoardImage and generateVeoVideo resolve to a
\* url or to null, or reject
ServiceOutcomes == {"url", "null", "throws"}

\* lines 14-16
StartGenerate(a) ==
    [a EXCEPT !.loading = TRUE, !.gameDesign = Null, !.boardImageUrl = Null,
              !.submitted = @ + 1]

\* lines 21-26
ConceptArrived(a, d) ==
    LET shown == [a EXCEPT !.gameDesign = Some(d), !.loading = FALSE]
    IN  IF d.boardDesign # "" THEN [shown EXCEPT !.loadingImage = TRUE] ELSE shown

GenerateFailed_KeepsLoading(a) == [a EXCEPT !.loadingImage = FALSE]

\* lines 38-43
GenerateFailed(a) == [a EXCEPT !.loading = FALSE, !.loadingImage = FALSE]

\* lines 29-32
ImageArrived(a, url) == [a EXCEPT !.boardImageUrl = url, !.loadingImage = FALSE]

\* lines 46-49
handleReset(a) == [a EXCEPT !.gameDesign = Null, !.boardImageUrl = Null]

\* lines 51-53
handleUpdateImage(a, newUrl) == [a EXCEPT !.boardImageUrl = Some(newUrl)]

\* the design on display, 0 when the input form is shown
Displayed(a) == IF a.gameDesign = Null THEN 0 ELSE a.gameDesign[1].id

\* InputForm: the submit button is disabled while isLoading
Generate ==
    /\ app.gameDesign = Null
    /\ ~app.loading
    /\ app.submitted < MaxSubmits
    /\ app' = StartGenerate(app)
    /\ calls' = Start(calls, Call("concept", app.submitted + 1, Null))
    /\ last' = ShellEvent("generate", "", app.submitted + 1)
    /\ UNCHANGED viz
    /\ UNCHANGED simVars

\* handleGenerate after the await of line 20; a new GameBlueprint, with a new
\* BoardVisualizer, is mounted when the design is set
ConceptReturns ==
    \E c \in BagToSet(calls), o \in ConceptOutcomes :
        /\ c.kind = "concept"
        /\ LET n == c.design
               d == Concept(n, IF o = "board" THEN "a board" ELSE "")
           IN  IF o = "throws"
               THEN /\ app' = GenerateFailed(app)
                    /\ calls' = Settle(calls, c)
                    /\ last' = ShellEvent("conceptFailed", o, n)
                    /\ UNCHANGED viz
               ELSE /\ app' = ConceptArrived(app, d)
                    /\ calls' = IF d.boardDesign # ""
                                THEN Start(Settle(calls, c), Call("image", n, Null))
                                ELSE Settle(calls, c)
                    /\ viz' = VizInitial
                    /\ last' = ShellEvent("concept", o, n)
        /\ UNCHANGED simVars

\* the then-callback of lines 29-32
ImageReturns ==
    \E c \in BagToSet(calls), o \in ImageOutcomes :
        /\ c.kind = "image"
        /\ app' = ImageArrived(app, IF o = "url"
                                    THEN Some(Image(c.design, "flash"))
                                    ELSE Null)
        /\ calls' = Settle(calls, c)
        /\ last' = ShellEvent("image", o, c.design)
        /\ UNCHANGED viz
        /\ UNCHANGED simVars

\* "Create New Game": GameBlueprint and its BoardVisualizer are unmounted
CreateNewGame ==
    /\ app.gameDesign # Null
    /\ app' = handleReset(app)
    /\ viz' = VizInitial
    /\ last' = ShellEvent("createNew", "", Displayed(app))
    /\ UNCHANGED calls
    /\ UNCHANGED simVars

-----------------------------------------------------------------------------
(* BoardVisualizer (part_002) *)

\* the texts typed into the edit field: nothing, blanks only, an instruction
EditPrompts == {"", " ", "volcano"}

trim(text) == IF text = " " THEN "" ELSE text

\* checkPaidApiKey resolves to true or false, or rejects
KeyOutcomes == {"true", "false", "throws"}

PaidKey_Unchecked(checked) == checked # "throws"

\* if (!(await checkPaidApiKey())) { await requestPaidApiKey(); return; }
PaidKey(checked) == checked = "true"

\* a state update of a BoardVisualizer that is no longer mounted is dropped:
\* the visualizer of design n is mounted while design n is on display
VizCommit(a, n, new, old) == IF Displayed(a) = n /\ n # 0 THEN new ELSE old

\* line 24
EditIgnored(imageUrl, editPrompt) == imageUrl = Null \/ trim(editPrompt) = ""

\* lines 25, 45, 62-63
SetBusy(v, kind) ==
    IF kind = "edit" THEN [v EXCEPT !.isEditing = TRUE]
    ELSE IF kind = "pro" THEN [v EXCEPT !.isProLoading = TRUE]
    ELSE [v EXCEPT !.isVideoLoading = TRUE, !.videoUrl = Null]

\* the finally blocks of lines 34-36, 51-53, 69-71
ClearBusy(v, kind) ==
    IF kind = "edit" THEN [v EXCEPT !.isEditing = FALSE]
    ELSE IF kind = "pro" THEN [v EXCEPT !.isProLoading = FALSE]
    ELSE [v EXCEPT !.isVideoLoading = FALSE]

ToolKinds == {"edit", "pro", "veo", "checkPro", "checkVeo", "requestKey"}

\* the operations of the board tools in flight
ToolCalls(cs) ==
    BagCardinality([c \in {x \in BagToSet(cs) : x.kind \in ToolKinds} |-> cs[c]])

\* onChange of the edit field, disabled without an image or while it loads
TypePrompt ==
    /\ app.gameDesign # Null
    /\ app.boardImageUrl # Null
    /\ ~app.loadingImage
    /\ \E text \in EditPrompts \ {viz.editPrompt} :
          viz' = [viz EXCEPT !.editPrompt = text]
    /\ last' = ShellEvent("type", "", Displayed(app))
    /\ UNCHANGED <<app, calls>>
    /\ UNCHANGED simVars

\* a click on the edit button: handleEdit up to the await of line 27
HandleEdit ==
    /\ app.gameDesign # Null
    /\ app.boardImageUrl # Null
    /\ viz.editPrompt # ""
    /\ ~viz.isEditing
    /\ ~app.loadingImage
    /\ IF EditIgnored(app.boardImageUrl, viz.editPrompt)
       THEN /\ last' = ShellEvent("editIgnored", "", Displayed(app))
            /\ UNCHANGED <<app, viz, calls>>
       ELSE /\ ToolCalls(calls) < MaxCalls
            /\ viz' = SetBusy(viz, "edit")
            /\ calls' = Start(calls, Call("edit", Displayed(app), app.boardImageUrl))
            /\ last' = ShellEvent("edit", "", Displayed(app))
            /\ UNCHANGED app
    /\ UNCHANGED simVars

\* a click on Regenerate: handleProGen up to the await of line 40
HandleProGen ==
    /\ app.gameDesign # Null
    /\ ~viz.isProLoading
    /\ ToolCalls(calls) < MaxCalls
    /\ calls' = Start(calls, Call("checkPro", Displayed(app), Null))
    /\ last' = ShellEvent("proGen", "", Displayed(app))
    /\ UNCHANGED <<app, viz>>
    /\ UNCHANGED simVars

\* a click on Animate (with a board image) or a file read by handleFileUpload
\* (with or without one): handleVeo up to the await of line 57. Which image
\* is animated is not recorded.
HandleVeo ==
    /\ app.gameDesign # Null
    /\ ~viz.isVideoLoading
    /\ ToolCalls(calls) < MaxCalls
    /\ calls' = Start(calls, Call("checkVeo", Displayed(app), Null))
    /\ last' = ShellEvent("veo", "", Displayed(app))
    /\ UNCHANGED <<app, viz>>
    /\ UNCHANGED simVars

\* handleProGen and handleVeo after checkPaidApiKey settled
PaidKeyChecked ==
    \E c \in BagToSet(calls), o \in KeyOutcomes :
        /\ c.kind \in {"checkPro", "checkVeo"}
        /\ LET kind == IF c.kind = "checkPro" THEN "pro" ELSE "veo"
           IN  /\ IF o = "throws"
                  THEN /\ calls' = Settle(calls, c)
                       /\ UNCHANGED viz
                  ELSE IF PaidKey(o)
                  THEN /\ viz' = VizCommit(app, c.design, SetBusy(viz, kind), viz)
                       /\ calls' = Start(Settle(calls, c), Call(kind, c.design, c.image))
                  ELSE /\ calls' = Start(Settle(calls, c),
                                          Call("requestKey", c.design, Null))
                       /\ UNCHANGED viz
               /\ last' = ShellEvent(c.kind, o, c.design)
        /\ UNCHANGED app
        /\ UNCHANGED simVars

\* requestPaidApiKey settled: the handler returns
KeyRequested ==
    \E c \in BagToSet(calls) :
        /\ c.kind = "requestKey"
        /\ calls' = Settle(calls, c)
        /\ last' = ShellEvent("requestKey", "", c.design)
        /\ UNCHANGED <<app, viz>>
        /\ UNCHANGED simVars

\* handleEdit and handleProGen after the image service settled
ImageServiceReturns ==
    \E c \in BagToSet(calls), o \in ServiceOutcomes :
        /\ c.kind \in {"edit", "pro"}
        /\ LET newImage == IF c.kind = "edit" THEN Image(c.image[1].for, "edit")
                           ELSE Image(c.design, "pro")
               done == IF c.kind = "edit" /\ o = "url"
                       THEN [viz EXCEPT !.editPrompt = ""] ELSE viz
           IN  /\ app' = IF o = "url" THEN handleUpdateImage(app, newImage) ELSE app
               /\ viz' = VizCommit(app, c.design, ClearBusy(done, c.kind), viz)
               /\ last' = ShellEvent(c.kind, o, c.design)
        /\ calls' = Settle(calls, c)
        /\ UNCHANGED simVars

\* handleVeo after generateVeoVideo settled
VeoReturns ==
    \E c \in BagToSet(calls), o \in ServiceOutcomes :
        /\ c.kind = "veo"
        /\ LET done == IF o = "throws" THEN viz
                       ELSE [viz EXCEPT !.videoUrl =
                                IF o = "url" THEN Some(Image(c.design, "veo"))
                                ELSE Null]
           IN  /\ viz' = VizCommit(app, c.design, ClearBusy(done, "veo"), viz)
               /\ last' = ShellEvent("veoDone", o, c.design)
        /\ calls' = Settle(calls, c)
        /\ UNCHANGED app
        /\ UNCHANGED simVars

-----------------------------------------------------------------------------
(* The application shell with its board visualizer; no simulation is open *)

ShellInit ==
    /\ ShellIdle
    /\ design = DesignLean
    /\ gameState = InitialGameState
    /\ isRolling = FALSE
    /\ soundEnabled = TRUE
    /\ timers = <<>>
    /\ mounted = FALSE
    /\ sfx = <<>>
    /\ last = ShellEvent("start", "", 0)

ShellNext ==
    \/ Generate
    \/ ConceptReturns
    \/ ImageReturns
    \/ CreateNewGame
    \/ TypePrompt
    \/ HandleEdit
    \/ HandleProGen
    \/ HandleVeo
    \/ PaidKeyChecked
    \/ KeyRequested
    \/ ImageServiceReturns
    \/ VeoReturns

ShellSpec == ShellInit /\ [][ShellNext]_vars

-----------------------------------------------------------------------------
(* Properties *)

\* C1: a roll of die value r in 1..6 taken from position p resolves, while the
\* view is open, to playerPosition = min(p + r, 23): never above 23 and never
\* below the position before the resolution.
C1_RollMovesToMin ==
    [][(last'.op = "resolve" /\ mounted) =>
          /\ last'.roll \in 1..6
          /\ last'.from \in 0..23
          /\ gameState'.playerPosition =
                (IF last'.from + last'.roll < 23
                 THEN last'.from + last'.roll ELSE 23)
          /\ gameState'.playerPosition <= 23
          /\ gameState'.playerPosition >= last'.from
          /\ gameState'.playerPosition >= gameState.playerPosition]_vars

\* a roll that overshoots the last space has resolved
C1_Witness ==
    /\ last.op = "resolve"
    /\ mounted
    /\ last.from + last.roll > 23
    /\ gameState.playerPosition = 23

\* C2: once isGameOver is true, no roll action (a click on Roll Dice or a roll
\* resolution) changes playerPosition, turn or isGameOver.
C2_NoRollAfterGameOver ==
    [][(gameState.isGameOver /\ last'.op \in {"roll", "rollRejected", "resolve"}) =>
          /\ gameState'.playerPosition = gameState.playerPosition
          /\ gameState'.turn = gameState.turn
          /\ gameState'.isGameOver = gameState.isGameOver]_vars

\* a roll was attempted after the game ended
C2_Witness ==
    /\ gameState.isGameOver
    /\ last.op = "rollRejected"
    /\ gameState.playerPosition = 23

\* C3: while isGameOver is true, only reset changes a field of GameState; no
\* pending roll resolution or card-draw timer writes to it.
C3_OnlyResetAfterGameOver ==
    [][(gameState.isGameOver /\ gameState' # gameState) => last'.op = "reset"]_vars

\* a game in which a card was drawn has ended, with no timer left pending
C3_Witness ==
    /\ gameState.isGameOver
    /\ \E k \in 1..Len(gameState.log) : gameState.log[k].kind = "card"
    /\ timers = <<>>
    /\ mounted

RollsPending(ts) == Cardinality({i \in 1..Len(ts) : ts[i].kind = "roll"})

\* C4: a click on Roll Dice while a roll is pending changes no state, plays no
\* cue and starts no timer; at most one roll resolution is ever pending.
C4_RollWhileRollingIsNoOp ==
    [][/\ (isRolling /\ last'.op \in {"roll", "rollRejected"}) =>
             /\ UNCHANGED <<design, gameState, isRolling, soundEnabled, timers, mounted>>
             /\ sfx' = <<>>
       /\ RollsPending(timers') <= 1]_vars

\* Roll Dice was clicked while a roll was pending
C4_Witness ==
    /\ isRolling
    /\ last.op = "rollRejected"
    /\ RollsPending(timers) = 1

\* C5: a resolution with p + r >= 23 sets playerPosition to 23 and isGameOver
\* to true and prepends exactly two entries: the roll-result line, then the
\* design's win-condition text, which becomes the newest entry.
C5_FinishLogsRollThenWin ==
    [][(last'.op = "resolve" /\ mounted /\ last'.from + last'.roll >= 23) =>
          /\ gameState'.playerPosition = 23
          /\ gameState'.isGameOver
          /\ Len(gameState'.log) = Len(gameState.log) + 2
          /\ gameState'.log[1] = [kind |-> "win", text |-> design.winningCondition]
          /\ gameState'.log[2] = [kind |-> "finish", roll |-> last'.roll]
          /\ SubSeq(gameState'.log, 3, Len(gameState'.log)) = gameState.log]_vars

\* a game-ending roll has resolved and its two entries head the log
C5_Witness ==
    /\ last.op = "resolve"
    /\ mounted
    /\ last.from + last.roll >= 23
    /\ gameState.isGameOver
    /\ gameState.log[1].kind = "win"
    /\ gameState.log[2].kind = "finish"

CardsPending(ts) == Cardinality({i \in 1..Len(ts) : ts[i].kind = "card"})

\* C6: whenever playerPosition is 0 or 23, currentEffect is null; a
\* game-ending resolution evaluates no tile effect (no effect set, no tile
\* entry, no tile cue) and schedules no card draw.
C6_NoEffectAtBoundaries ==
    /\ [](gameState.playerPosition \in {0, 23} => gameState.currentEffect = <<>>)
    /\ [][(last'.op = "resolve" /\ last'.from + last'.roll >= 23) =>
             /\ ~last'.scheduled
             /\ CardsPending(timers') = CardsPending(timers)
             /\ \A k \in 1..Len(sfx') : sfx'[k] # "tile"
             /\ mounted => /\ gameState'.currentEffect = <<>>
                           /\ gameState'.log[1].kind # "tile"]_vars

\* a game-ending roll has resolved on a board whose spaces carry tiles
C6_Witness ==
    /\ last.op = "resolve"
    /\ gameState.playerPosition = 23
    /\ gameState.isGameOver
    /\ Len(design.tileTypes) > 0
    /\ gameState.currentEffect = <<>>

\* C7: every roll resolution, game-ending or not, increases turn by exactly 1,
\* and only a roll resolution or a reset changes turn.
C7_TurnAdvancesByOne ==
    [][/\ (last'.op = "resolve" /\ mounted) => gameState'.turn = gameState.turn + 1
       /\ gameState'.turn # gameState.turn => last'.op \in {"resolve", "reset"}]_vars

\* a game-ending resolution has advanced the turn counter
C7_Witness ==
    /\ last.op = "resolve"
    /\ mounted
    /\ gameState.isGameOver
    /\ gameState.turn = 5

SpellsCard(text) ==
    \E i \in 1..(Len(text) - 3) :
        /\ text[i] \in {"c", "C"}
        /\ text[i + 1] \in {"a", "A"}
        /\ text[i + 2] \in {"r", "R"}
        /\ text[i + 3] \in {"d", "D"}

\* the tile a resolution from position p with die value r lands on, if any
TileLandedOn(d, p, r) ==
    IF p + r < 23 /\ p + r > 0 /\ Len(d.tileTypes) > 0
    THEN <<d.tileTypes[((p + r) % Len(d.tileTypes)) + 1]>>
    ELSE <<>>

\* C9: a non-game-ending resolution on a tile whose effect spells "card" in
\* any casing always schedules a card draw, whatever the random chance, and
\* with at least one card type drawnCard then becomes non-null while the view
\* stays open; on a tile whose effect does not spell "card" the draw is
\* scheduled exactly when the random chance succeeds.
C9_CardWordForcesDraw ==
    /\ [][last'.op = "resolve" =>
             LET landed == TileLandedOn(design, last'.from, last'.roll)
             IN  /\ landed = <<>> => ~last'.scheduled
                 /\ (landed # <<>> /\ SpellsCard(landed[1].effect)) => last'.scheduled
                 /\ (landed # <<>> /\ ~SpellsCard(landed[1].effect)) =>
                       (last'.scheduled <=> last'.chance)
                 /\ CardsPending(timers') =
                       CardsPending(timers) + (IF last'.scheduled THEN 1 ELSE 0)]_vars
    /\ (/\ last.op = "resolve"
        /\ last.scheduled
        /\ Len(design.cardTypes) > 0
        /\ mounted) ~> (gameState.drawnCard # <<>> \/ ~mounted)

\* a draw was scheduled on a "card" tile although the random chance failed
C9_Witness ==
    /\ last.op = "resolve"
    /\ mounted
    /\ last.scheduled
    /\ ~last.chance
    /\ Len(design.cardTypes) > 0
    /\ gameState.currentEffect # <<>>
    /\ SpellsCard(gameState.currentEffect[1])

\* C10: a card draw on a design with no card types changes neither drawnCard
\* nor the log (nor any other field) and plays no cue.
C10_NoCardTypesNoDraw ==
    [][(last'.op = "card" /\ Len(design.cardTypes) = 0) =>
          /\ gameState' = gameState
          /\ sfx' = <<>>]_vars

\* a scheduled card draw has run on the design without card types
C10_Witness ==
    /\ last.op = "card"
    /\ Len(design.cardTypes) = 0
    /\ mounted
    /\ gameState.currentEffect # <<>>
    /\ gameState.drawnCard = <<>>

AllExamplesNonEmpty(d) ==
    /\ Len(d.cardTypes) > 0
    /\ \A k \in 1..Len(d.cardTypes) : Len(d.cardTypes[k].examples) > 0

\* C11: when every card type has examples, a card draw sets drawnCard to the
\* type of one entry of design.cardTypes with one of that entry's own
\* examples and prepends exactly one entry quoting it; and wherever a card
\* draw is pending, every (card type, example) pair of the design can be drawn.
C11_DrawPicksTypeAndOwnExample ==
    /\ [][(last'.op = "card" /\ mounted /\ AllExamplesNonEmpty(design)) =>
             \E k \in 1..Len(design.cardTypes) :
                \E e \in 1..Len(design.cardTypes[k].examples) :
                   /\ gameState'.drawnCard =
                         <<[type |-> design.cardTypes[k].type,
                            content |-> <<design.cardTypes[k].examples[e]>>]>>
                   /\ gameState'.log =
                         <<[kind |-> "card",
                            type |-> design.cardTypes[k].type,
                            content |-> design.cardTypes[k].examples[e]]>>
                         \o gameState.log]_vars
    /\ []((mounted /\ CardsPending(timers) > 0 /\ AllExamplesNonEmpty(design)) =>
             \A k \in 1..Len(design.cardTypes) :
                \A e \in 1..Len(design.cardTypes[k].examples) :
                   ENABLED (/\ DrawCard
                            /\ gameState'.drawnCard =
                                  <<[type |-> design.cardTypes[k].type,
                                     content |-> <<design.cardTypes[k].examples[e]>>]>>))

\* the second example of the first card type of the two-type design was drawn
C11_Witness ==
    /\ last.op = "card"
    /\ mounted
    /\ Len(design.cardTypes) = 2
    /\ gameState.drawnCard = <<[type |-> "Quiz", content |-> <<"q2">>]>>
    /\ gameState.log[1] = [kind |-> "card", type |-> "Quiz", content |-> "q2"]

\* C12: a reset leaves playerPosition 0, turn 1, isGameOver false,
\* currentEffect null, drawnCard null and a log of exactly one new entry.
C12_ResetReinitialises ==
    [][last'.op = "reset" =>
          /\ gameState'.playerPosition = 0
          /\ gameState'.turn = 1
          /\ gameState'.isGameOver = FALSE
          /\ gameState'.currentEffect = <<>>
          /\ gameState'.drawnCard = <<>>
          /\ gameState'.log = <<[kind |-> "reset"]>>
          /\ DOMAIN gameState' = DOMAIN gameState]_vars

\* a finished game with a longer log was reset
C12_Witness ==
    /\ last.op = "reset"
    /\ gameState.playerPosition = 0
    /\ gameState.turn = 1
    /\ ~gameState.isGameOver
    /\ gameState.log = <<[kind |-> "reset"]>>

\* C13 as stated: the reset action can be taken from any state of the open
\* simulation (Ready, Rolling and Over).
C13_ResetFromAnyState ==
    mounted => ENABLED ResetGame

\* C13 amended: the reset action can be taken exactly in the Over state of the
\* open simulation, and when it is taken no roll or card draw is pending.
C13_ResetExactlyWhenOver ==
    /\ [](mounted => ((ENABLED ResetGame) <=> gameState.isGameOver))
    /\ [][last'.op = "reset" =>
             /\ gameState.isGameOver
             /\ ~isRolling
             /\ timers = <<>>]_vars

\* the game was won on a later turn and then reset, with nothing pending
C13_Witness ==
    /\ last.op = "reset"
    /\ mounted
    /\ ~isRolling
    /\ timers = <<>>
    /\ ~gameState.isGameOver
    /\ ENABLED HandleRoll

\* the new log is the old log with exactly n entries put in front of it
Prepended(new, old, n) ==
    /\ Len(new) = Len(old) + n
    /\ SubSeq(new, n + 1, Len(new)) = old

\* C14 as stated: the roll action itself prepends exactly one or two entries to
\* the log, one if the roll is game-ending, and keeps the older entries in order.
C14_RollPrependsOneIfGameEnding ==
    [][(last'.op = "resolve" /\ mounted) =>
          \E n \in {1, 2} :
             /\ Prepended(gameState'.log, gameState.log, n)
             /\ (last'.from + last'.roll >= 23 => n = 1)]_vars

\* C14 amended: accepting a roll prepends nothing; resolving it prepends two
\* entries when the roll is game-ending (roll result, then win condition), two
\* when an ordinary move lands on a space carrying a tile (move, then tile
\* effect) and one when the design has no tile types; older entries stay
\* present and in the same order.
C14_RollPrependsOneOrTwo ==
    /\ [][last'.op = "roll" => gameState'.log = gameState.log]_vars
    /\ [][(last'.op = "resolve" /\ mounted) =>
             IF last'.from + last'.roll >= 23
             THEN /\ Prepended(gameState'.log, gameState.log, 2)
                  /\ gameState'.log[1].kind = "win"
                  /\ gameState'.log[2].kind = "finish"
             ELSE IF Len(design.tileTypes) > 0
             THEN /\ Prepended(gameState'.log, gameState.log, 2)
                  /\ gameState'.log[1].kind = "tile"
                  /\ gameState'.log[2].kind = "move"
             ELSE /\ Prepended(gameState'.log, gameState.log, 1)
                  /\ gameState'.log[1].kind = "move"]_vars

\* a game-ending roll was resolved on top of a log of at least three entries
C14_Witness ==
    /\ last.op = "resolve"
    /\ mounted
    /\ last.from + last.roll >= 23
    /\ Len(gameState.log) >= 5
    /\ gameState.log[1].kind = "win"
    /\ gameState.log[2].kind = "finish"

C16_OnlyRollAndResetMutate ==
    /\ gameState = [playerPosition |-> 0,
                    log |-> <<[kind |-> "welcome"]>>,
                    turn |-> 1,
                    isGameOver |-> FALSE,
                    currentEffect |-> <<>>,
                    drawnCard |-> <<>>]
    /\ [][gameState' # gameState =>
             last'.op \in {"roll", "resolve", "card", "reset"}]_vars
    /\ [][last'.op \in {"sound", "close"} =>
             /\ gameState' = gameState
             /\ isRolling' = isRolling
             /\ timers' = timers]_vars

\* the view was dismissed in the second turn and kept its advanced GameState
C16_Witness ==
    /\ last.op = "close"
    /\ ~mounted
    /\ gameState.turn = 2
    /\ gameState.playerPosition > 0
    /\ Len(gameState.log) > 1

C18_ZigZagCoordinates ==
    \A i \in 0..23 :
        LET row == i \div 6
            col == i % 6
            column == IF row % 2 = 0 THEN col ELSE 5 - col
            space == spaces(design)[i]
            x == space.x
            y == space.y
        IN  /\ x.den > 0
            /\ y.den > 0
            /\ x.num = (10 + 16 * column) * x.den
            /\ 3 * y.num = (270 - 80 * row) * y.den
            /\ 10 * x.den <= x.num
            /\ x.num <= 90 * x.den
            /\ 10 * y.den <= y.num
            /\ y.num <= 90 * y.den
            /\ row = 0 => y.num = 90 * y.den

\* the token stands on space 7: row 1, traversed right to left, so column 4,
\* x = 74 and y = 190 / 3
C18_Witness ==
    /\ last.op = "resolve"
    /\ mounted
    /\ gameState.playerPosition = 7
    /\ spaces(design)[7].x.num = 74 * spaces(design)[7].x.den
    /\ 3 * spaces(design)[7].y.num = 190 * spaces(design)[7].y.den

\* C19: the layouts of two designs with the same number of tile types have
\* identical (x, y) coordinates and identical space kinds at every index.
C19_LayoutIndependentOfTiles ==
    \A d \in Designs :
        Len(d.tileTypes) = Len(design.tileTypes) =>
            LET other == spaces(d)
                board == spaces(design)
            IN  \A i \in 0..23 :
                   LET a == other[i]
                       b == board[i]
                   IN  /\ a.x = b.x
                       /\ a.y = b.y
                       /\ a.type = b.type

\* the token stands on a space where another design with the same number of
\* tile types carries a different tile, at the same coordinates
C19_Witness ==
    /\ last.op = "resolve"
    /\ mounted
    /\ gameState.playerPosition = 3
    /\ \E d \in Designs :
          /\ d # design
          /\ Len(d.tileTypes) = Len(design.tileTypes)
          /\ spaces(d)[3].tileDetails # spaces(design)[3].tileDetails
          /\ spaces(d)[3].x = spaces(design)[3].x

\* a cue request of the handler met a window without audio or a throwing one
Failed(outcomes) == \E k \in 1..Len(outcomes) : outcomes[k] # "ok"

\* the cues among those requested whose request met working audio
Played(cues, outcomes) ==
    LET One(k) == IF outcomes[k] = "ok" THEN <<cues[k]>> ELSE <<>>
    IN  IF Len(cues) = 1 THEN One(1) ELSE One(1) \o One(2)

\* C20: when a cue request meets no audio capability or a throwing synthesis,
\* that request plays nothing, and the roll or card draw that made it
\* completes with the GameState changes it makes when audio works.
C20_AudioFailureIsSilent ==
    [][(mounted /\ Failed(last'.audio)) =>
          CASE last'.op = "roll" ->
                  /\ Len(last'.audio) = 1
                  /\ sfx' = <<>>
                  /\ isRolling'
                  /\ RollsPending(timers') = 1
                  /\ gameState' = [gameState EXCEPT !.currentEffect = <<>>,
                                                    !.drawnCard = <<>>]
            [] last'.op = "resolve" ->
                  LET finish == last'.from + last'.roll >= 23
                      landed == TileLandedOn(design, last'.from, last'.roll)
                      cues == <<IF finish THEN "win" ELSE "move">>
                              \o (IF landed = <<>> THEN <<>> ELSE <<"tile">>)
                  IN  /\ Len(last'.audio) = Len(cues)
                      /\ sfx' = Played(cues, last'.audio)
                      /\ ~isRolling'
                      /\ RollsPending(timers') = 0
                      /\ CardsPending(timers') =
                            CardsPending(timers) + (IF last'.scheduled THEN 1 ELSE 0)
                      /\ gameState'.playerPosition =
                            (IF finish THEN 23 ELSE last'.from + last'.roll)
                      /\ gameState'.turn = gameState.turn + 1
                      /\ gameState'.isGameOver = finish
                      /\ gameState'.drawnCard = gameState.drawnCard
                      /\ gameState'.currentEffect =
                            (IF landed = <<>> THEN gameState.currentEffect
                             ELSE <<landed[1].effect>>)
                      /\ Prepended(gameState'.log, gameState.log,
                                   IF finish THEN 2 ELSE Len(cues))
                      /\ gameState'.log[1].kind =
                            (IF finish THEN "win" ELSE IF landed = <<>> THEN "move" ELSE "tile")
            [] last'.op = "card" ->
                  /\ Len(last'.audio) = 1
                  /\ sfx' = <<>>
                  /\ CardsPending(timers') = CardsPending(timers) - 1
                  /\ gameState'.drawnCard # <<>>
                  /\ Prepended(gameState'.log, gameState.log, 1)
                  /\ gameState'.log[1].kind = "card"
                  /\ gameState'.log[1].type = gameState'.drawnCard[1].type
                  /\ gameState'.playerPosition = gameState.playerPosition
                  /\ gameState'.turn = gameState.turn
                  /\ gameState'.isGameOver = gameState.isGameOver
                  /\ gameState'.currentEffect = gameState.currentEffect
            [] OTHER -> FALSE]_vars

\* a roll resolved on a tile with sound on: the move cue played, the tile cue
\* met a throwing synthesis, and the move and the tile effect were committed
C20_Witness ==
    /\ last.op = "resolve"
    /\ mounted
    /\ last.audio = <<"ok", "throws">>
    /\ sfx = <<"move">>
    /\ gameState.turn = 2
    /\ gameState.playerPosition = last.roll
    /\ gameState.currentEffect # <<>>
    /\ gameState.log[1].kind = "tile"

\* C21: after the view has been closed, a pending roll-resolution or
\* card-draw timer callback is a no-op: it changes no GameState field, appends
\* no log entry and plays no cue.
C21_TimerAfterCloseIsNoOp ==
    [][(~mounted /\ last'.op \in {"resolve", "card"}) =>
          /\ gameState' = gameState
          /\ sfx' = <<>>]_vars

\* C22: the view is dismissed (onClose is invoked) only by the close button:
\* no roll, roll resolution, card draw, reset or sound toggle, and no
\* transition to game over, dismisses it.
C22_OnlyCloseDismisses ==
    /\ [][mounted' # mounted => (last'.op = "close" /\ mounted /\ ~mounted')]_vars
    /\ [][last'.op \in {"roll", "rollRejected", "resolve", "card", "reset", "sound"} =>
             mounted' = mounted]_vars
    /\ [][(~gameState.isGameOver /\ gameState'.isGameOver) => mounted' = mounted]_vars

\* the game was won and then reset, and the view is still open
C22_Witness ==
    /\ last.op = "reset"
    /\ mounted
    /\ gameState.turn = 1
    /\ gameState.log[1].kind = "reset"
    /\ soundEnabled

C24_CueOrderOfOneRoll ==
    /\ [][(last'.op = "roll" /\ soundEnabled /\ ~Failed(last'.audio)) =>
             sfx' = <<"roll">>]_vars
    /\ [][last'.op = "resolve" =>
             /\ RollsPending(timers) = 1
             /\ RollsPending(timers') = 0
             /\ (last'.audio # <<>> /\ ~Failed(last'.audio)) =>
                   sfx' = <<IF last'.from + last'.roll >= 23 THEN "win" ELSE "move">>
                          \o (IF TileLandedOn(design, last'.from, last'.roll) # <<>>
                              THEN <<"tile">> ELSE <<>>)]_vars
    /\ [][CardsPending(timers') > CardsPending(timers) =>
             (last'.op = "resolve" /\ last'.scheduled)]_vars
    /\ [][last'.op = "card" =>
             /\ CardsPending(timers') = CardsPending(timers) - 1
             /\ sfx' \in {<<>>, <<"card">>}
             /\ sfx' = <<"card">> => Len(design.cardTypes) > 0
             /\ Len(design.cardTypes) = 0 => last'.audio = <<>>
             /\ (last'.audio # <<>> /\ ~Failed(last'.audio)) => sfx' = <<"card">>]_vars
    /\ [][sfx' # <<>> => last'.op \in {"roll", "resolve", "card"}]_vars

\* the card cue of a roll whose move and tile entries are in the log was played
C24_Witness ==
    /\ last.op = "card"
    /\ sfx = <<"card">>
    /\ last.audio = <<"ok">>
    /\ soundEnabled
    /\ Len(gameState.log) >= 3
    /\ gameState.log[2].kind = "tile"
    /\ gameState.log[3].kind = "move"

\* C25: on a design whose tileTypes list is empty no space carries a tile, so
\* currentEffect and drawnCard stay null and no card draw is ever pending;
\* every resolution still moves the token to min(p + r, 23), logs the move,
\* ends the game exactly when p + r >= 23, and plays no tile cue.
C25_NoTileTypesNoEffects ==
    /\ [](Len(design.tileTypes) = 0 =>
             /\ \A i \in 0..23 : spaces(design)[i].tileDetails = Null
             /\ gameState.currentEffect = Null
             /\ gameState.drawnCard = Null
             /\ CardsPending(timers) = 0)
    /\ [][(Len(design.tileTypes) = 0 /\ last'.op = "resolve") =>
             /\ ~last'.scheduled
             /\ timers' = <<>>
             /\ \A k \in 1..Len(sfx') : sfx'[k] # "tile"
             /\ mounted =>
                   /\ gameState'.playerPosition =
                         (IF last'.from + last'.roll < 23
                          THEN last'.from + last'.roll ELSE 23)
                   /\ gameState'.isGameOver <=> last'.from + last'.roll >= 23
                   /\ gameState'.turn = gameState.turn + 1
                   /\ ~isRolling'
                   /\ gameState'.log[1].kind \in {"move", "win"}
                   /\ Len(gameState'.log) =
                         Len(gameState.log) + (IF gameState'.isGameOver THEN 2 ELSE 1)]_vars

\* a game on the design without tile types has ended with nothing but moves
C25_Witness ==
    /\ Len(design.tileTypes) = 0
    /\ last.op = "resolve"
    /\ mounted
    /\ gameState.isGameOver
    /\ gameState.playerPosition = 23
    /\ gameState.log[1].kind = "win"
    /\ \A k \in 3..(Len(gameState.log) - 1) : gameState.log[k].kind = "move"

\* C26: the log is never empty, and every step but a reset leaves the old log
\* untouched below at most two new entries put in front of it. A resolution
\* that lands on a tile puts the tile entry in front of its roll-result entry,
\* and the card draw it scheduled puts the card entry in front of both.
C26_LogIsPrependOnly ==
    /\ [](Len(gameState.log) >= 1)
    /\ [][last'.op # "reset" =>
             \E n \in 0..2 : Prepended(gameState'.log, gameState.log, n)]_vars
    /\ [][(last'.op \in {"resolve", "card"} /\ mounted) =>
             Len(gameState'.log) >= Len(gameState.log)]_vars
    /\ [][(/\ last'.op = "resolve"
           /\ mounted
           /\ TileLandedOn(design, last'.from, last'.roll) # <<>>) =>
             /\ Prepended(gameState'.log, gameState.log, 2)
             /\ gameState'.log[1].kind = "tile"
             /\ gameState'.log[2] =
                   [kind |-> "move", roll |-> last'.roll,
                    space |-> last'.from + last'.roll + 1]]_vars
    /\ [][(last'.op = "card" /\ mounted /\ Len(design.cardTypes) > 0) =>
             /\ Prepended(gameState'.log, gameState.log, 1)
             /\ gameState'.log[1].kind = "card"
             /\ gameState'.log[2].kind = "tile"
             /\ gameState'.log[3].kind = "move"]_vars

\* two rolls in a row have each left a roll-result, a tile and a card entry
C26_Witness ==
    /\ last.op = "card"
    /\ mounted
    /\ Len(gameState.log) >= 7
    /\ gameState.log[1].kind = "card"
    /\ gameState.log[2].kind = "tile"
    /\ gameState.log[3].kind = "move"
    /\ gameState.log[4].kind = "card"
    /\ gameState.log[5].kind = "tile"
    /\ gameState.log[6].kind = "move"

\* the pending timers without the sound flag their closures captured
Silent(ts) ==
    [i \in 1..Len(ts) |->
        [kind |-> ts[i].kind, delay |-> ts[i].delay, position |-> ts[i].position]]

\* C27: GameState does not depend on audio. Every step takes the game state,
\* the rolling flag and the pending timers (less their captured sound flag) to
\* values fixed by those same values, the user action, the die value, the
\* random chance and the card selected: neither soundEnabled, nor the cues
\* played, nor the outcome of an audio call enters. Toggling the sound changes
\* soundEnabled alone. Two runs with the same actions, die values and card
\* selections therefore pass through the same GameState values.
C27_GameStateIgnoresAudio ==
    /\ [][last'.op = "roll" =>
             /\ ~gameState.isGameOver /\ ~isRolling
             /\ gameState' = ClearEffectAndCard(gameState)
             /\ isRolling'
             /\ Silent(timers') =
                   Append(Silent(timers),
                          [kind |-> "roll", delay |-> 600,
                           position |-> gameState.playerPosition])]_vars
    /\ [][last'.op \in {"rollRejected", "sound", "close"} =>
             /\ gameState' = gameState
             /\ isRolling' = isRolling
             /\ timers' = timers]_vars
    /\ [][last'.op = "sound" =>
             /\ soundEnabled' = ~soundEnabled
             /\ mounted' = mounted]_vars
    /\ [][last'.op # "sound" => soundEnabled' = soundEnabled]_vars
    /\ [][last'.op = "resolve" =>
             /\ gameState' =
                   Commit(mounted,
                          ResolvedState(gameState, design, gameState.playerPosition,
                                        last'.roll),
                          gameState)
             /\ isRolling' = Commit(mounted, FALSE, isRolling)
             /\ \E i \in 1..Len(timers) :
                   /\ timers[i].kind = "roll"
                   /\ Silent(timers') =
                         IF last'.scheduled
                         THEN Append(RemoveAt(Silent(timers), i),
                                     [kind |-> "card", delay |-> 500, position |-> 0])
                         ELSE RemoveAt(Silent(timers), i)]_vars
    /\ [][last'.op = "card" =>
             /\ isRolling' = isRolling
             /\ \E i \in 1..Len(timers) :
                   /\ timers[i].kind = "card"
                   /\ Silent(timers') = RemoveAt(Silent(timers), i)
             /\ \/ gameState' = gameState /\ (~mounted \/ Len(design.cardTypes) = 0)
                \/ /\ mounted
                   /\ gameState'.drawnCard # Null
                   /\ LET card == gameState'.drawnCard[1]
                      IN  gameState' =
                             addToLog(SetDrawnCard(gameState, card.type, card.content),
                                      CardMsg(card.type, card.content))]_vars
    /\ [][last'.op = "reset" =>
             /\ gameState' = ResetGameState
             /\ isRolling' = isRolling
             /\ timers' = timers]_vars

\* a roll accepted with the sound off resolved in silence on a tile, after
\* the sound had been switched on again
C27_Witness ==
    /\ last.op = "resolve"
    /\ mounted
    /\ soundEnabled
    /\ last.audio = <<>>
    /\ sfx = <<>>
    /\ last.from > 0
    /\ gameState.currentEffect # Null
    /\ gameState.log[1].kind = "tile"

\* C28: between handlers (a roll resolution runs as one step) isGameOver is
\* true if and only if playerPosition equals 23.
C28_GameOverIffAtFinish ==
    gameState.isGameOver <=> gameState.playerPosition = 23

\* a roll that lands exactly on the last space has ended the game
C28_Witness ==
    /\ last.op = "resolve"
    /\ mounted
    /\ last.from + last.roll = 23
    /\ gameState.isGameOver
    /\ gameState.playerPosition = 23
    /\ ~isRolling

Min(a, b) == IF a < b THEN a ELSE b

C30_StaleDrawNeverShowsCard ==
    /\ [][(last'.op = "card" /\ isRolling) =>
             gameState'.drawnCard = gameState.drawnCard]_vars
    /\ [][(last'.op = "resolve" /\ mounted) => gameState'.drawnCard = Null]_vars

\* C31: no step plays a cue while soundEnabled is false, the resolution and
\* the card draw of a roll accepted before the sound was muted included.
C31_NoCueWhileMuted ==
    [][~soundEnabled' => sfx' = <<>>]_vars

\* C32: while a roll is pending no step other than its resolution changes
\* playerPosition, turn or isGameOver, and the game is not over (so Play Again
\* is not on offer); hence the position the roll read at accept is the
\* current playerPosition when the roll resolves.
C32_PendingRollSeesCurrentPosition ==
    /\ [](\A i \in 1..Len(timers) :
             timers[i].kind = "roll" =>
                /\ timers[i].position = gameState.playerPosition
                /\ ~gameState.isGameOver
                /\ isRolling)
    /\ [][(RollsPending(timers) > 0 /\ last'.op # "resolve") =>
             /\ gameState'.playerPosition = gameState.playerPosition
             /\ gameState'.turn = gameState.turn
             /\ gameState'.isGameOver = gameState.isGameOver]_vars
    /\ [][last'.op = "resolve" => last'.from = gameState.playerPosition]_vars

\* a card draw of the previous roll ran while the next roll was pending and
\* left the position that roll had read
C32_Witness ==
    /\ last.op = "card"
    /\ mounted
    /\ isRolling
    /\ RollsPending(timers) = 1
    /\ gameState.drawnCard # Null
    /\ gameState.playerPosition > 0
    /\ timers[1].position = gameState.playerPosition

\* C33: on every design, one with a card type without examples included, a
\* non-null drawnCard names a card type of the design and its content is one
\* of that card type's examples (never missing).
C33_DrawnCardHasContent ==
    gameState.drawnCard # Null =>
       \E k \in 1..Len(design.cardTypes) :
          /\ design.cardTypes[k].type = gameState.drawnCard[1].type
          /\ gameState.drawnCard[1].content # Null
          /\ \E j \in 1..Len(design.cardTypes[k].examples) :
                design.cardTypes[k].examples[j] = gameState.drawnCard[1].content[1]

\* C34: a non-null boardImageUrl is an image made for the design on display,
\* and an image request started for another design neither sets
\* boardImageUrl nor clears loadingImage when it completes.
C34_ImageBelongsToDisplayedDesign ==
    /\ []((app.boardImageUrl # Null /\ app.gameDesign # Null) =>
             app.boardImageUrl[1].for = Displayed(app))
    /\ [][(last'.op = "image" /\ last'.design # Displayed(app)) =>
             /\ app'.boardImageUrl = app.boardImageUrl
             /\ app'.loadingImage = app.loadingImage]_vars

\* C35: handleGenerate ends, when generateGameConcept settles, with loading
\* false. If the concept fails, gameDesign was and stays null and
\* loadingImage is false. If the board image fails (generateBoardImage
\* resolves to null), gameDesign is left as it was, so the design the image
\* was for stays on display, boardImageUrl is null and loadingImage is false.
C35_GenerateEndsNotLoading ==
    /\ [][last'.op \in {"concept", "conceptFailed"} => ~app'.loading]_vars
    /\ [][last'.op = "conceptFailed" =>
             /\ app.gameDesign = Null
             /\ app'.gameDesign = Null
             /\ ~app'.loadingImage]_vars
    /\ [][(last'.op = "image" /\ last'.result = "null") =>
             /\ app'.gameDesign = app.gameDesign
             /\ app'.loading = app.loading
             /\ app'.boardImageUrl = Null
             /\ ~app'.loadingImage]_vars
    /\ [](app.loading <=> InFlight(calls, "concept") > 0)

\* the image of the design on display could not be generated
C35_Witness ==
    /\ last.op = "image"
    /\ last.result = "null"
    /\ Displayed(app) = last.design
    /\ last.design = 1
    /\ app.boardImageUrl = Null
    /\ ~app.loadingImage
    /\ ~app.loading

\* C36: Pro image generation and video generation are called only when
\* checkPaidApiKey has just returned true. When it returns false the handler
\* requests key selection, calls no generation service and sets no busy
\* flag, and returns when the request settles. A busy flag is set only by
\* the handler that starts the operation, is false again when the operation
\* finishes with a url, with null or with an error, and is true only while
\* such an operation is in flight.
C36_PaidKeyGateAndBusyFlags ==
    /\ [][/\ InFlight(calls', "pro") > InFlight(calls, "pro") =>
                (last'.op = "checkPro" /\ last'.result = "true")
          /\ InFlight(calls', "veo") > InFlight(calls, "veo") =>
                (last'.op = "checkVeo" /\ last'.result = "true")]_vars
    /\ [][(last'.op \in {"checkPro", "checkVeo"} /\ last'.result = "false") =>
             /\ InFlight(calls', "requestKey") = InFlight(calls, "requestKey") + 1
             /\ InFlight(calls', "pro") = InFlight(calls, "pro")
             /\ InFlight(calls', "veo") = InFlight(calls, "veo")
             /\ viz' = viz
             /\ app' = app]_vars
    /\ [][last'.op = "requestKey" =>
             /\ BagCardinality(calls') = BagCardinality(calls) - 1
             /\ InFlight(calls', "pro") = InFlight(calls, "pro")
             /\ InFlight(calls', "veo") = InFlight(calls, "veo")
             /\ viz' = viz]_vars
    /\ [][/\ (viz'.isEditing /\ ~viz.isEditing) =>
                (last'.op = "edit" /\ last'.result = "")
          /\ (viz'.isProLoading /\ ~viz.isProLoading) =>
                (last'.op = "checkPro" /\ last'.result = "true")
          /\ (viz'.isVideoLoading /\ ~viz.isVideoLoading) =>
                (last'.op = "checkVeo" /\ last'.result = "true")]_vars
    /\ [][(last'.result \in ServiceOutcomes /\ last'.design = Displayed(app)) =>
             /\ last'.op = "edit" => ~viz'.isEditing
             /\ last'.op = "pro" => ~viz'.isProLoading
             /\ last'.op = "veoDone" => ~viz'.isVideoLoading]_vars
    /\ [](/\ viz.isEditing => InFlight(calls, "edit") > 0
          /\ viz.isProLoading => InFlight(calls, "pro") > 0
          /\ viz.isVideoLoading => InFlight(calls, "veo") > 0)

\* a Pro generation that the key check let through has failed while its
\* design was on display, and its busy flag is down again
C36_Witness ==
    /\ last.op = "pro"
    /\ last.result = "throws"
    /\ Displayed(app) = last.design
    /\ Displayed(app) = 1
    /\ ~viz.isProLoading
    /\ app.boardImageUrl = Null

\* the grid cell of a space, read back from its coordinates: columns are 16
\* apart from x = 10, rows 80/3 apart from y = 90
GridCol(space) == (space.x.num - 10 * space.x.den) \div 80

GridRow(space) == (90 * space.y.den - space.y.num) \div 80

OnGrid(space) ==
    /\ (space.x.num - 10 * space.x.den) % 80 = 0
    /\ (90 * space.y.den - space.y.num) % 80 = 0
    /\ GridCol(space) \in 0..5
    /\ GridRow(space) \in 0..3

Distance(a, b) == IF a < b THEN b - a ELSE a - b

\* C37: the 24 board coordinates are pairwise distinct, and the spaces of two
\* consecutive path indices lie in neighbouring grid cells: the same row and
\* adjacent columns, or, at a row change, the same column and adjacent rows.
C37_PathVisitsNeighbouringCells ==
    \* the path of the design on the board, computed once
    [](\A path \in {spaces(design)} :
          /\ Cardinality({<<path[i].x, path[i].y>> : i \in 0..23}) = 24
          /\ \A i \in 0..23 : OnGrid(path[i])
          /\ \A i \in 0..22 :
                \/ /\ GridRow(path[i]) = GridRow(path[i + 1])
                   /\ Distance(GridCol(path[i]), GridCol(path[i + 1])) = 1
                \/ /\ GridCol(path[i]) = GridCol(path[i + 1])
                   /\ Distance(GridRow(path[i]), GridRow(path[i + 1])) = 1
                   /\ (i + 1) % 6 = 0)

\* the token has stepped from space 5 up to space 6, at the first row change
C37_Witness ==
    /\ last.op = "resolve"
    /\ mounted
    /\ last.from = 5
    /\ gameState.playerPosition = 6
    /\ spaces(design)[5].x = spaces(design)[6].x
    /\ spaces(design)[5].y # spaces(design)[6].y

====
